---- MODULE Spec2Model ----
(***************************************************************************)
(* Model of src/vision/main.py (MasterHand vision process): the per-frame  *)
(* main loop with its fold/openness classifier get_gesture, the pinch      *)
(* test, the velocity-gated snap detector and the two module-level         *)
(* dictionaries pinch_state and prev_middle_y.                             *)
(*                                                                         *)
(* Coordinates are binary fixed-point: the integer k stands for the float  *)
(* k / 1024, so 512 is 0.5 and a squared distance n stands for n / 2^20.   *)
(* Every such float and every difference, square and sum the program forms *)
(* from them is exact in double precision, so the integer arithmetic below *)
(* is the program's arithmetic.  The literals 0.004 and 0.04 are not       *)
(* multiples of the unit; they are kept as the fractions 4/1000 and 4/100  *)
(* and compared exactly (no multiple of 2^-20 lies between 4/1000 and the  *)
(* double 0.004, no multiple of 2^-10 between 4/100 and the double 0.04).  *)
(* A squared distance is below 0.004 up to 4194 and not from 4195 on; a    *)
(* move exceeds 0.04 from 41 on and not up to 40.                          *)
(***************************************************************************)
EXTENDS Integers, Sequences, FiniteSets

VARIABLES
    pinch_state,        \* dict label -> bool                 (main.py:20)
    prev_middle_y,      \* dict label -> middle-tip y         (main.py:21)
    pc,                 \* position in the while loop: "read", "hands", "emit", "done"
    success,            \* outcome of the last cap.read(): "unset", "True", "False"
    frame,              \* hands of the frame being processed (results.multi_*)
    i,                  \* index of the next hand in the for loop (1-based)
    hand_data_list,     \* main.py:60
    snap_detected,      \* main.py:61
    sent,               \* datagrams given to sock.sendto in this loop iteration
    stdout,             \* labels printed by "Snap Detected!" in this loop iteration
    pre_pinch_state,    \* pinch_state at the top of this loop iteration
    pre_prev_middle_y,  \* prev_middle_y at the top of this loop iteration
    seen,               \* labels processed in earlier loop iterations
    exc,                \* uncaught exception that ended the process, or "none"
    prev_single,        \* while the hands of a frame are processed: the previous acquired frame if it held exactly one hand, else <<>>
    last_obs,           \* per label: pinch flag and middle-tip y of its latest observation
    gap,                \* per label: loop iterations without it since its latest observation,
                        \* as of this iteration (capped at MaxGap)
    snapped             \* labels that fired a snap and were not observed pinching since

vars == <<pinch_state, prev_middle_y, pc, success, frame, i, hand_data_list,
          snap_detected, sent, stdout, pre_pinch_state, pre_prev_middle_y, seen,
          exc, prev_single, last_obs, gap, snapped>>

\* The observers of the run's history: no statement of main.py reads them.
history == <<prev_single, last_obs, gap, snapped>>

-----------------------------------------------------------------------------
(* Program constants.                                                      *)

\* Number of coordinate units in 1.0.
Unit == 2^10

\* threshold_sq = 0.004 and velocity_threshold = 0.04 as fractions.
threshold_sq == [num |-> 4, den |-> 1000]
velocity_threshold == [num |-> 4, den |-> 100]
max_num_hands == 2

\* Cap of the per-label count of loop iterations without an observation.
MaxGap == 2
\* ids of the landmarks of one hand, as enumerated at main.py:69
LandmarkIds == 0..20

Labels == {"Left", "Right"}

finger_tips == <<8, 12, 16, 20>>
finger_mcps == <<5, 9, 13, 17>>

-----------------------------------------------------------------------------
(* Python helpers.                                                         *)

Abs(n) == IF n < 0 THEN -n ELSE n

Sq(n) == n * n

Min(a, b) == IF a <= b THEN a ELSE b

\* n / scale <= q.num / q.den
Less_le(n, scale, q) == n <= (q.num * scale) \div q.den

\* n / scale < q.num / q.den, for n, scale and the fraction q positive:
\* n * q.den < q.num * scale, with the division done on the right-hand
\* side so that a large n does not leave the integer range.
Less(n, scale, q) == n <= (q.num * scale - 1) \div q.den

\* n / scale > q.num / q.den
Greater(n, scale, q) == n > (q.num * scale) \div q.den

\* dict.get(k, default)
DictGet(d, k, default) == IF k \in DOMAIN d THEN d[k] ELSE default

\* d[k] = v that only rewrites keys the dict already has.
DictSet_existing(d, k, v) == [x \in DOMAIN d |-> IF x = k THEN v ELSE d[x]]

\* d[k] = v
DictSet(d, k, v) == [x \in (DOMAIN d) \cup {k} |-> IF x = k THEN v ELSE d[x]]

Pt(px, py, pz) == [x |-> px, y |-> py, z |-> pz]

\* (a.x - b.x)**2 + (a.y - b.y)**2 + (a.z - b.z)**2
DistSq(a, b) == Sq(a.x - b.x) + Sq(a.y - b.y) + Sq(a.z - b.z)

-----------------------------------------------------------------------------
(* Hand observations handed over by hands.process: a label and 21          *)
(* landmarks.  The sets below enumerate the observations the model feeds   *)
(* in; a hand is built from the positions of the four finger tips and the  *)
(* offset of the thumb tip from the middle-finger tip.                     *)

Wrist == Pt(500, 900, 0)

McpPos(m) ==
    CASE m = 5  -> Pt(400, 600, -20)
      [] m = 9  -> Pt(500, 500, -20)
      [] m = 13 -> Pt(600, 600, -20)
      [] m = 17 -> Pt(700, 700, -20)

\* Position of a finger tip other than the middle one: stretched out,
\* curled towards the wrist, or exactly as far from the wrist as its MCP.
TipPos(t, bend) ==
    CASE bend = "ext"  -> (CASE t = 8  -> Pt(400, 300, 0)
                             [] t = 16 -> Pt(600, 300, 0)
                             [] t = 20 -> Pt(700, 450, 0))
      [] bend = "fold" -> (CASE t = 8  -> Pt(400, 800, 0)
                             [] t = 16 -> Pt(600, 800, 0)
                             [] t = 20 -> Pt(650, 850, 0))
      [] bend = "eq"   -> (CASE t = 8  -> Pt(400, 600, 20)
                             [] t = 16 -> Pt(600, 600, 20)
                             [] t = 20 -> Pt(700, 700, 20))

\* mid = <<y, z>> of the middle-finger tip, thumb = <<dx, dy, dz>> offset of
\* the thumb tip from it, pose = bend of the index, ring and little finger.
MkLandmarks(pose, mid, thumb) ==
    [id \in LandmarkIds |->
        CASE id = 0 -> Wrist
          [] id = 4 -> Pt(500 + thumb[1], mid[1] + thumb[2], mid[2] + thumb[3])
          [] id = 12 -> Pt(500, mid[1], mid[2])
          [] id \in {5, 9, 13, 17} -> McpPos(id)
          [] id \in {8, 16, 20} -> TipPos(id, pose[id])
          [] OTHER -> Pt(450 + 10 * id, 750, 0)]

MkHand(label, pose, mid, thumb) ==
    [label |-> label, landmark |-> MkLandmarks(pose, mid, thumb)]

PoseOf(b8, b16, b20) == [t \in {8, 16, 20} |-> CASE t = 8 -> b8 [] t = 16 -> b16 [] t = 20 -> b20]

\* All observations of one hand the model knows: every bend of the three
\* fingers, the middle tip stretched at four heights, curled (y = 700) or
\* level with its MCP (y = 500, z = 20), and the thumb tip at squared
\* distance 9, 16, 4194 (the largest below 0.004), 4195 (the smallest
\* above it) and 4225 from the middle tip.
Bends == {"ext", "eq", "fold"}
AllPoses == {PoseOf(b8, b16, b20) : b8 \in Bends, b16 \in Bends, b20 \in Bends}
Mids == {<<10, 0>>, <<50, 0>>, <<91, 0>>, <<100, 0>>}
AllMids == Mids \cup {<<700, 0>>, <<500, 20>>}
Thumbs == {<<4, 0, 0>>, <<65, 0, 0>>}
AllThumbs == Thumbs \cup {<<3, 0, 0>>, <<63, 15, 0>>, <<63, 15, 1>>}

AllHands == {MkHand(l, p, m, t) : l \in Labels, p \in AllPoses, m \in AllMids, t \in AllThumbs}

\* Inputs of the main loop: thumb touching the middle tip at y = 10 or 91,
\* thumb apart at y = 50 or 100, so that a release moves the middle tip by
\* 9, 40 (the largest move not above 0.04), 41 (the smallest above it) or
\* 90; each height comes with its own bend of the other fingers.
Shapes == {<<<<10, 0>>, <<4, 0, 0>>>>, <<<<91, 0>>, <<4, 0, 0>>>>,
           <<<<50, 0>>, <<65, 0, 0>>>>, <<<<100, 0>>, <<65, 0, 0>>>>}

PoseFor(m) ==
    CASE m[1] = 10  -> PoseOf("ext", "ext", "ext")
      [] m[1] = 50  -> PoseOf("fold", "ext", "ext")
      [] m[1] = 91  -> PoseOf("fold", "fold", "fold")
      [] m[1] = 100 -> PoseOf("fold", "fold", "ext")

Hands == {MkHand(l, PoseFor(sh[1]), sh[1], sh[2]) : l \in Labels, sh \in Shapes}

\* The hand with its index, ring and pinky tips bent as pose says; wrist,
\* MCPs, thumb tip and middle tip stay where they are.
Repose(hand, pose) ==
    [hand EXCEPT !.landmark =
        [id \in DOMAIN hand.landmark |->
            IF id \in {8, 16, 20} THEN TipPos(id, pose[id]) ELSE hand.landmark[id]]]

\* Observations outside the contract of hands.process: a label that is
\* neither Left nor Right, and landmark containers of 5, 20 or 22 points.
AnyLabels == Labels \cup {"Unknown"}
LandmarkCounts == {5, 20, 21, 22}

Resize(landmarks, n) ==
    [id \in 0..(n - 1) |->
        IF id \in DOMAIN landmarks THEN landmarks[id] ELSE Pt(450 + 10 * id, 750, 0)]

AnyHands ==
    {[label |-> l, landmark |-> Resize(MkLandmarks(PoseFor(sh[1]), sh[1], sh[2]), n)] :
        l \in AnyLabels, sh \in Shapes, n \in LandmarkCounts}

\* results.multi_hand_landmarks: None or up to max_num_hands hands.
Frames == {<<>>} \cup {<<h>> : h \in Hands} \cup {<<g, h>> : g \in Hands, h \in Hands}

-----------------------------------------------------------------------------
(* get_gesture (main.py:23-49).                                            *)

RECURSIVE FoldedCount_le(_, _)
\* FoldedCount with the comparison slipped to <=: an equidistant finger counts.
FoldedCount_le(landmarks, k) ==
    IF k > Len(finger_tips) THEN 0
    ELSE LET tip == landmarks[finger_tips[k]]
             mcp == landmarks[finger_mcps[k]]
             wrist == landmarks[0]
             dist_tip == DistSq(tip, wrist)
             dist_mcp == DistSq(mcp, wrist)
         IN  (IF dist_tip <= dist_mcp THEN 1 ELSE 0) + FoldedCount_le(landmarks, k + 1)

RECURSIVE FoldedCount(_, _)
\* the for loop over zip(finger_tips, finger_mcps), from pair k onwards
FoldedCount(landmarks, k) ==
    IF k > Len(finger_tips) THEN 0
    ELSE LET tip == landmarks[finger_tips[k]]
             mcp == landmarks[finger_mcps[k]]
             wrist == landmarks[0]
             dist_tip == DistSq(tip, wrist)
             dist_mcp == DistSq(mcp, wrist)
         IN  (IF dist_tip < dist_mcp THEN 1 ELSE 0) + FoldedCount(landmarks, k + 1)

get_gesture(landmarks) ==
    LET folded_count == FoldedCount(landmarks, 1)
    IN  IF folded_count >= 3 THEN "Fist"
        ELSE IF folded_count = 0 THEN "Open"
        ELSE "Neutral"

-----------------------------------------------------------------------------
(* Pinch test and snap rule of the loop body (main.py:85-101).             *)

\* is_pinching on the distance in the image plane: z is left out.
is_pinching_2d(landmarks) ==
    LET th == landmarks[4]
        mi == landmarks[12]
        dist_sq == Sq(th.x - mi.x) + Sq(th.y - mi.y)
    IN  Less(dist_sq, Unit * Unit, threshold_sq)

\* dist_sq < threshold_sq (main.py:88-91)
is_pinching(landmarks) ==
    LET th == landmarks[4]
        mi == landmarks[12]
        dist_sq == DistSq(th, mi)
    IN  Less(dist_sq, Unit * Unit, threshold_sq)

\* abs(current_y - prev_middle_y.get(handedness, current_y))
velocity(prev, handedness, landmarks) ==
    LET current_y == landmarks[12].y
    IN  Abs(current_y - DictGet(prev, handedness, current_y))

\* SnapFires as an edge trigger: the snap fires when a hand that was stored
\* as apart is now pinching, without any velocity test.
SnapFires_edge(ps, prev, handedness, landmarks) ==
    /\ ~ DictGet(ps, handedness, FALSE)
    /\ is_pinching(landmarks)

\* SnapFires without the test of the stored flag: any fast hand that is
\* not pinching fires.
SnapFires_nostate(ps, prev, handedness, landmarks) ==
    /\ ~ is_pinching(landmarks)
    /\ Greater(velocity(prev, handedness, landmarks), Unit, velocity_threshold)

\* SnapFires on the signed move: only a middle tip that went down the
\* image (y grew) fires.
SnapFires_signed(ps, prev, handedness, landmarks) ==
    /\ DictGet(ps, handedness, FALSE)
    /\ ~ is_pinching(landmarks)
    /\ Greater(landmarks[12].y - DictGet(prev, handedness, landmarks[12].y),
               Unit, velocity_threshold)

\* the nested if of main.py:97-99
SnapFires(ps, prev, handedness, landmarks) ==
    /\ DictGet(ps, handedness, FALSE)
    /\ ~ is_pinching(landmarks)
    /\ Greater(velocity(prev, handedness, landmarks), Unit, velocity_threshold)

\* RaisesIndexError as a length check: anything but 21 landmarks raises.
RaisesIndexError_strict(landmarks) ==
    DOMAIN landmarks # LandmarkIds

\* Indexing the landmark container beyond its length raises IndexError:
\* get_gesture reads 0, 8, 5, 12, 9, 16, 13, 20, 17 (main.py:25-34) and the
\* loop body reads 4 and 12 (main.py:85-86).
RaisesIndexError(landmarks) ==
    \E id \in {0, 4, 5, 8, 9, 12, 13, 16, 17, 20} : id \notin DOMAIN landmarks

\* landmark_list with ids counted from 1.
landmark_list_from1(landmarks) ==
    [k \in 1..Cardinality(DOMAIN landmarks) |->
        [id |-> k, x |-> landmarks[k - 1].x, y |-> landmarks[k - 1].y, z |-> landmarks[k - 1].z]]

\* landmark_list (main.py:68-75)
landmark_list(landmarks) ==
    [k \in 1..Cardinality(DOMAIN landmarks) |->
        [id |-> k - 1, x |-> landmarks[k - 1].x, y |-> landmarks[k - 1].y, z |-> landmarks[k - 1].z]]

\* LoopBody with the writes of lines 103-104 moved into an else branch of
\* the snap test: a hand that fires leaves the dictionaries as they were.
LoopBody_skip(ps, prev, hand) ==
    LET hand_landmarks == hand.landmark
        handedness == hand.label
        gesture == get_gesture(hand_landmarks)
        fires == SnapFires(ps, prev, handedness, hand_landmarks)
    IN  [hand_data |-> [label |-> handedness,
                        landmarks |-> landmark_list(hand_landmarks),
                        gesture |-> gesture],
         fires |-> fires,
         pinch_state |-> IF fires THEN ps
                         ELSE DictSet(ps, handedness, is_pinching(hand_landmarks)),
         prev_middle_y |-> IF fires THEN prev
                           ELSE DictSet(prev, handedness, hand_landmarks[12].y)]

\* LoopBody that also clears the pinch flag of every other label.
LoopBody_reset(ps, prev, hand) ==
    LET hand_landmarks == hand.landmark
        handedness == hand.label
        gesture == get_gesture(hand_landmarks)
    IN  [hand_data |-> [label |-> handedness,
                        landmarks |-> landmark_list(hand_landmarks),
                        gesture |-> gesture],
         fires |-> SnapFires(ps, prev, handedness, hand_landmarks),
         pinch_state |-> [x \in (DOMAIN ps) \cup {handedness} |->
                            IF x = handedness THEN is_pinching(hand_landmarks) ELSE FALSE],
         prev_middle_y |-> DictSet(prev, handedness, hand_landmarks[12].y)]

\* LoopBody in which a hand classified Fist cannot snap.
LoopBody_fist(ps, prev, hand) ==
    LET hand_landmarks == hand.landmark
        handedness == hand.label
        gesture == get_gesture(hand_landmarks)
    IN  [hand_data |-> [label |-> handedness,
                        landmarks |-> landmark_list(hand_landmarks),
                        gesture |-> gesture],
         fires |-> gesture # "Fist" /\ SnapFires(ps, prev, handedness, hand_landmarks),
         pinch_state |-> DictSet(ps, handedness, is_pinching(hand_landmarks)),
         prev_middle_y |-> DictSet(prev, handedness, hand_landmarks[12].y)]

\* The body of the for loop for one hand (main.py:64-104): the entry
\* appended to hand_data_list, whether the snap branch is taken, and the
\* two dictionaries after the unconditional writes of lines 103-104.
LoopBody(ps, prev, hand) ==
    LET hand_landmarks == hand.landmark
        handedness == hand.label
        gesture == get_gesture(hand_landmarks)
    IN  [hand_data |-> [label |-> handedness,
                        landmarks |-> landmark_list(hand_landmarks),
                        gesture |-> gesture],
         fires |-> SnapFires(ps, prev, handedness, hand_landmarks),
         pinch_state |-> DictSet(ps, handedness, is_pinching(hand_landmarks)),
         prev_middle_y |-> DictSet(prev, handedness, hand_landmarks[12].y)]

RECURSIVE ForLoop(_, _, _, _)
\* The whole for loop over the hands hs from hand k onwards, started with
\* the dictionaries ps, prev: the final dictionaries and snap_detected.
ForLoop(ps, prev, hs, k) ==
    IF k > Len(hs) THEN [pinch_state |-> ps, prev_middle_y |-> prev, snap_detected |-> FALSE]
    ELSE LET r == LoopBody(ps, prev, hs[k])
             rest == ForLoop(r.pinch_state, r.prev_middle_y, hs, k + 1)
         IN  [rest EXCEPT !.snap_detected = r.fires \/ rest.snap_detected]

-----------------------------------------------------------------------------
(* The program.                                                            *)

Init ==
    /\ pinch_state = [l \in Labels |-> FALSE]
    /\ prev_middle_y = [l \in Labels |-> 0]
    /\ pc = "read"
    /\ success = "unset"
    /\ frame = <<>>
    /\ i = 1
    /\ hand_data_list = <<>>
    /\ snap_detected = FALSE
    /\ sent = <<>>
    /\ stdout = <<>>
    /\ pre_pinch_state = [l \in Labels |-> FALSE]
    /\ pre_prev_middle_y = [l \in Labels |-> 0]
    /\ seen = {}
    /\ exc = "none"
    /\ prev_single = <<>>
    /\ last_obs = [l \in Labels |-> [pinch |-> FALSE, y |-> 0]]
    /\ gap = [l \in Labels |-> 0]
    /\ snapped = {}

\* The history observers after the loop body ran for a hand.
Observe(hand, fired) ==
    /\ last_obs' = DictSet(last_obs, hand.label,
                           [pinch |-> is_pinching(hand.landmark), y |-> hand.landmark[12].y])
    /\ snapped' = (IF fired THEN snapped \cup {hand.label}
                   ELSE IF is_pinching(hand.landmark) THEN snapped \ {hand.label}
                   ELSE snapped)

\* The gap counts when a loop iteration starts with the hands f (<<>> when
\* the read failed): a label that f does not carry counts this iteration as
\* one more without it.  The count of a label that f carries stands while
\* its hands are processed and returns to 0 when the for loop ends.
NextGap(f) ==
    [l \in DOMAIN gap |->
        IF \E k \in 1..Len(f) : f[k].label = l THEN gap[l]
        ELSE Min(gap[l] + 1, MaxGap)]

\* Bookkeeping done when a new loop iteration starts.
StartIteration ==
    /\ sent' = <<>>
    /\ stdout' = <<>>
    /\ pre_pinch_state' = pinch_state
    /\ pre_prev_middle_y' = prev_middle_y
    /\ seen' = seen \cup {frame[k].label : k \in 1..Len(frame)}

\* cap.isOpened() is false: the while loop ends (main.py:51).
CapClosed ==
    /\ pc = "read"
    /\ pc' = "done"
    /\ UNCHANGED <<pinch_state, prev_middle_y, success, frame, i, hand_data_list,
                   snap_detected, sent, stdout, pre_pinch_state, pre_prev_middle_y, seen,
                   exc, history>>

\* ReadFail that puts both dictionaries back to their start values.
ReadFail_reset ==
    /\ pc = "read"
    /\ success' = "False"
    /\ StartIteration
    /\ pc' = "read"
    /\ pinch_state' = [l \in DOMAIN pinch_state |-> FALSE]
    /\ prev_middle_y' = [l \in DOMAIN prev_middle_y |-> 0]
    /\ gap' = NextGap(<<>>)
    /\ UNCHANGED <<frame, i, hand_data_list, snap_detected,
                   exc, prev_single, last_obs, snapped>>

\* cap.read() fails: continue (main.py:52-54).
ReadFail ==
    /\ pc = "read"
    /\ success' = "False"
    /\ StartIteration
    /\ pc' = "read"
    /\ gap' = NextGap(<<>>)
    /\ UNCHANGED <<pinch_state, prev_middle_y, frame, i, hand_data_list, snap_detected,
                   exc, prev_single, last_obs, snapped>>

\* ReadFrame with a timeout: a frame without hands clears every pinch flag.
ReadFrame_timeout ==
    /\ pc = "read"
    /\ \E f \in Frames :
        /\ Len(f) <= max_num_hands
        /\ frame' = f
        /\ gap' = NextGap(f)
        /\ pinch_state' = (IF f = <<>> THEN [l \in DOMAIN pinch_state |-> FALSE]
                           ELSE pinch_state)
    /\ prev_single' = (IF Len(frame) = 1 THEN frame ELSE <<>>)
    /\ success' = "True"
    /\ StartIteration
    /\ hand_data_list' = <<>>
    /\ snap_detected' = FALSE
    /\ i' = 1
    /\ pc' = "hands"
    /\ UNCHANGED <<prev_middle_y, exc, last_obs, snapped>>

\* cap.read() succeeds, hands.process returns the frame's hands, the
\* per-frame variables are reset (main.py:52-63).
ReadFrame ==
    /\ pc = "read"
    /\ \E f \in Frames :
        /\ Len(f) <= max_num_hands
        /\ frame' = f
        /\ gap' = NextGap(f)
    /\ prev_single' = (IF Len(frame) = 1 THEN frame ELSE <<>>)
    /\ success' = "True"
    /\ StartIteration
    /\ hand_data_list' = <<>>
    /\ snap_detected' = FALSE
    /\ i' = 1
    /\ pc' = "hands"
    /\ UNCHANGED <<pinch_state, prev_middle_y, exc, last_obs, snapped>>

\* ProcessHand that assigns the hand's result to snap_detected instead of
\* only ever setting it: the last hand of the frame decides.
ProcessHand_overwrite ==
    /\ pc = "hands"
    /\ i <= Len(frame)
    /\ IF RaisesIndexError(frame[i].landmark)
       THEN /\ exc' = "IndexError"
            /\ pc' = "done"
            /\ UNCHANGED <<pinch_state, prev_middle_y, success, frame, i, hand_data_list,
                           snap_detected, sent, stdout, pre_pinch_state,
                           pre_prev_middle_y, seen, history>>
       ELSE /\ LET r == LoopBody(pinch_state, prev_middle_y, frame[i])
               IN  /\ hand_data_list' = Append(hand_data_list, r.hand_data)
                   /\ snap_detected' = r.fires
                   /\ stdout' = (IF r.fires THEN Append(stdout, frame[i].label) ELSE stdout)
                   /\ pinch_state' = r.pinch_state
                   /\ prev_middle_y' = r.prev_middle_y
                   /\ Observe(frame[i], r.fires)
            /\ i' = i + 1
            /\ UNCHANGED <<pc, success, frame, sent, pre_pinch_state, pre_prev_middle_y,
                           seen, exc, prev_single, gap>>

\* One pass of the for loop body (main.py:64-110).
ProcessHand ==
    /\ pc = "hands"
    /\ i <= Len(frame)
    /\ IF RaisesIndexError(frame[i].landmark)
       THEN /\ exc' = "IndexError"
            /\ pc' = "done"
            /\ UNCHANGED <<pinch_state, prev_middle_y, success, frame, i, hand_data_list,
                           snap_detected, sent, stdout, pre_pinch_state,
                           pre_prev_middle_y, seen, history>>
       ELSE /\ LET r == LoopBody(pinch_state, prev_middle_y, frame[i])
               IN  /\ hand_data_list' = Append(hand_data_list, r.hand_data)
                   /\ snap_detected' = (IF r.fires THEN TRUE ELSE snap_detected)
                   /\ stdout' = (IF r.fires THEN Append(stdout, frame[i].label) ELSE stdout)
                   /\ pinch_state' = r.pinch_state
                   /\ prev_middle_y' = r.prev_middle_y
                   /\ Observe(frame[i], r.fires)
            /\ i' = i + 1
            /\ UNCHANGED <<pc, success, frame, sent, pre_pinch_state, pre_prev_middle_y,
                           seen, exc, prev_single, gap>>

\* The for loop is exhausted (or multi_hand_landmarks is None).
EndHands ==
    /\ pc = "hands"
    /\ i > Len(frame)
    /\ pc' = "emit"
    /\ gap' = [l \in DOMAIN gap |->
                 IF \E k \in 1..Len(frame) : frame[k].label = l THEN 0 ELSE gap[l]]
    /\ prev_single' = <<>>
    /\ UNCHANGED <<pinch_state, prev_middle_y, success, frame, i, hand_data_list,
                   snap_detected, sent, stdout, pre_pinch_state, pre_prev_middle_y, seen,
                   exc, last_obs, snapped>>

\* Emit without the test of hand_data_list: an empty payload is sent too.
Emit_always ==
    /\ pc = "emit"
    /\ sent' = Append(sent, [hands |-> hand_data_list, snap |-> snap_detected])
    /\ \E esc \in BOOLEAN : pc' = (IF esc THEN "done" ELSE "read")
    /\ UNCHANGED <<pinch_state, prev_middle_y, success, frame, i, hand_data_list,
                   snap_detected, stdout, pre_pinch_state, pre_prev_middle_y, seen,
                   exc, history>>

\* json.dumps + sock.sendto when hand_data_list is non-empty, then
\* imshow and waitKey: ESC leaves the loop (main.py:112-121).
Emit ==
    /\ pc = "emit"
    /\ sent' = (IF hand_data_list # <<>>
                THEN Append(sent, [hands |-> hand_data_list, snap |-> snap_detected])
                ELSE sent)
    /\ \E esc \in BOOLEAN : pc' = (IF esc THEN "done" ELSE "read")
    /\ UNCHANGED <<pinch_state, prev_middle_y, success, frame, i, hand_data_list,
                   snap_detected, stdout, pre_pinch_state, pre_prev_middle_y, seen,
                   exc, history>>

Next ==
    \/ CapClosed
    \/ ReadFail
    \/ ReadFrame
    \/ ProcessHand
    \/ EndHands
    \/ Emit

Spec == Init /\ [][Next]_vars

-----------------------------------------------------------------------------
(* The loop body on a single hand: the loop stands at the for loop with a  *)
(* frame of one hand drawn from AllHands, in the state the first           *)
(* successful read after process start leaves.                             *)

InitHand ==
    /\ pinch_state = [l \in Labels |-> FALSE]
    /\ prev_middle_y = [l \in Labels |-> 0]
    /\ pc = "hands"
    /\ success = "True"
    /\ frame \in {<<h>> : h \in AllHands}
    /\ i = 1
    /\ hand_data_list = <<>>
    /\ snap_detected = FALSE
    /\ sent = <<>>
    /\ stdout = <<>>
    /\ pre_pinch_state = [l \in Labels |-> FALSE]
    /\ pre_prev_middle_y = [l \in Labels |-> 0]
    /\ seen = {}
    /\ exc = "none"
    /\ prev_single = <<>>
    /\ last_obs = [l \in Labels |-> [pinch |-> FALSE, y |-> 0]]
    /\ gap = [l \in Labels |-> IF l = frame[1].label THEN 0 ELSE Min(1, MaxGap)]
    /\ snapped = {}

NextHand ==
    \/ ProcessHand
    \/ EndHands
    \/ Emit

SpecHand == InitHand /\ [][NextHand]_vars

-----------------------------------------------------------------------------
(* The program on frames of at most one hand, which may be malformed: the  *)
(* whole loop from process start, with each acquired frame empty or one    *)
(* hand of AnyHands, so that a label outside Left and Right is observed    *)
(* again after its entry was created.                                      *)

\* cap.read() succeeds and hands.process returns no hand or one hand that
\* may be malformed; the per-frame variables are reset (main.py:52-63).
ReadAny ==
    /\ pc = "read"
    /\ \E f \in {<<>>} \cup {<<h>> : h \in AnyHands} :
        /\ frame' = f
        /\ gap' = NextGap(f)
    /\ prev_single' = (IF Len(frame) = 1 THEN frame ELSE <<>>)
    /\ success' = "True"
    /\ StartIteration
    /\ hand_data_list' = <<>>
    /\ snap_detected' = FALSE
    /\ i' = 1
    /\ pc' = "hands"
    /\ UNCHANGED <<pinch_state, prev_middle_y, exc, last_obs, snapped>>

NextAny ==
    \/ CapClosed
    \/ ReadFail
    \/ ReadAny
    \/ ProcessHand
    \/ EndHands
    \/ Emit

SpecAny == Init /\ [][NextAny]_vars

-----------------------------------------------------------------------------
TypeOK ==
    /\ DOMAIN pinch_state = Labels
    /\ DOMAIN prev_middle_y = Labels
    /\ pc \in {"read", "hands", "emit", "done"}
    /\ success \in {"unset", "True", "False"}
    /\ Len(frame) <= max_num_hands
    /\ i \in 1..(max_num_hands + 1)
    /\ snap_detected \in BOOLEAN
    /\ seen \subseteq Labels
-----------------------------------------------------------------------------
(* Properties.                                                             *)

\* The loop iteration that acquired a frame has run to its end.
IterationDone == pc \in {"read", "done"} /\ success = "True"

\* The hand whose loop body ran last, when there is one.
LastHand == frame[i - 1]

\* A move of dy units is more than 0.04: dy / Unit > 4 / 100.
Over004(dy) == dy * 100 > 4 * Unit

\* A squared distance of d units is less than 0.004: d / Unit^2 < 1 / 250.
Under0004(d) == d * 250 < Unit * Unit

\* C1: velocity-gated snap rule.  Whenever the loop body runs for a hand
\* with label L, "Snap Detected! Hand: L" is printed iff the stored
\* is_pinching of L at that moment is true, the hand is not pinching now,
\* and |current middle-tip y - stored prev_middle_tip_y of L| > 0.04;
\* nothing else is printed by that step.  A move of exactly 0.04 is not
\* above the threshold.
C1_SnapRule ==
    [][(pc = "hands" /\ i <= Len(frame) /\ i' = i + 1) =>
         LET L == frame[i].label
             y == frame[i].landmark[12].y
             dy == IF y >= prev_middle_y[L] THEN y - prev_middle_y[L] ELSE prev_middle_y[L] - y
             rule == pinch_state[L] /\ ~ is_pinching(frame[i].landmark) /\ Over004(dy)
         IN  /\ rule => stdout' = Append(stdout, L)
             /\ ~ rule => stdout' = stdout
             /\ ~ Greater(4, 100, velocity_threshold)]_vars

\* C1 witness: the first hand of a frame released a pinch with a move of
\* 90 units (0.088) and its snap was printed.
C1_Witness ==
    /\ pc = "hands" /\ i = 2
    /\ stdout = <<frame[1].label>>
    /\ pre_pinch_state[frame[1].label]
    /\ ~ is_pinching(frame[1].landmark)
    /\ frame[1].landmark[12].y - pre_prev_middle_y[frame[1].label] = 90

\* C2: in the first loop iteration in which a label is processed at all, no
\* snap is printed for that label.
C2_FirstFrameNeverFires ==
    \A k \in 1..Len(stdout) : stdout[k] \in seen

\* C3: after a frame with at least one hand, exactly one payload was sent
\* and its snap flag is true iff some hand of this very frame printed a snap.
C3_SnapIsOrOfHands ==
    (IterationDone /\ frame # <<>>) =>
        /\ Len(sent) = 1
        /\ sent[1].snap = (stdout # <<>>)

\* C3 witness: a frame <<Left, Right>> in which Left fired and Right did
\* not, sent with snap = true.
C3_Witness ==
    /\ IterationDone
    /\ Len(frame) = 2 /\ frame[1].label = "Left" /\ frame[2].label = "Right"
    /\ stdout = <<"Left">>
    /\ Len(sent) = 1 /\ sent[1].snap = TRUE

\* C4: right after the loop body ran for a hand with label L, the stored
\* is_pinching of L is that hand's pinch flag and the stored
\* prev_middle_tip_y of L is that hand's middle-tip y, snap or no snap.
C4_StateUpdated ==
    (pc = "hands" /\ i > 1) =>
        /\ pinch_state[LastHand.label] = is_pinching(LastHand.landmark)
        /\ prev_middle_y[LastHand.label] = LastHand.landmark[12].y

\* C4 witness: the hand just processed fired a snap and the state of its
\* label is the new one (not pinching, new y).
C4_Witness ==
    /\ pc = "hands" /\ i = 2
    /\ stdout = <<frame[1].label>>
    /\ pre_pinch_state[frame[1].label] = TRUE
    /\ pinch_state[frame[1].label] = FALSE
    /\ prev_middle_y[frame[1].label] = frame[1].landmark[12].y
    /\ prev_middle_y[frame[1].label] # pre_prev_middle_y[frame[1].label]

\* C5: throughout and after a loop iteration whose frame has no hand, both
\* dictionaries are what they were at the top of the iteration and nothing
\* was sent.
C5_ZeroHands ==
    (success = "True" /\ frame = <<>>) =>
        /\ pinch_state = pre_pinch_state
        /\ prev_middle_y = pre_prev_middle_y
        /\ sent = <<>>

\* C5 witness: a zero-hand frame ran to its end while a label was stored
\* as pinching.
C5_Witness ==
    /\ IterationDone /\ frame = <<>>
    /\ \E L \in Labels : pinch_state[L] /\ prev_middle_y[L] # 0

\* C6: a label carried by none of the hands of the current frame keeps the
\* is_pinching and prev_middle_tip_y it had at the top of the iteration.
C6_AbsentLabelUntouched ==
    \A L \in Labels :
        (success = "True" /\ \A k \in 1..Len(frame) : frame[k].label # L) =>
            /\ pinch_state[L] = pre_pinch_state[L]
            /\ prev_middle_y[L] = pre_prev_middle_y[L]

\* C6 witness: a frame with Left hands only ran to its end and changed
\* Left's state while Right is still stored as pinching.
C6_Witness ==
    /\ IterationDone /\ frame # <<>>
    /\ \A k \in 1..Len(frame) : frame[k].label = "Left"
    /\ pinch_state["Left"] # pre_pinch_state["Left"]
    /\ pinch_state["Right"] /\ prev_middle_y["Right"] # 0

\* C7: a failed cap.read() changes neither dictionary, sends nothing and
\* leaves the loop at its head, ready for the next frame.
C7_ReadFailureSkips ==
    [][(pc = "read" /\ success' = "False" /\ pc' # "done") =>
         /\ pinch_state' = pinch_state
         /\ prev_middle_y' = prev_middle_y
         /\ sent' = <<>>
         /\ pc' = "read"]_vars

\* C7 witness: the read failed after a frame had left a label pinching.
C7_Witness ==
    /\ pc = "read" /\ success = "False"
    /\ sent = <<>>
    /\ \E L \in Labels : pinch_state[L] /\ prev_middle_y[L] # 0

\* C8: once both hands of a two-hand frame are processed, the snap flag
\* and both dictionaries are what processing the two hands in the other
\* order from the same starting state gives.
C8_OrderIndependent ==
    (pc = "emit" /\ Len(frame) = 2) =>
        LET r == ForLoop(pre_pinch_state, pre_prev_middle_y, <<frame[2], frame[1]>>, 1)
        IN  /\ r.snap_detected = snap_detected
            /\ r.pinch_state = pinch_state
            /\ r.prev_middle_y = prev_middle_y

\* C9: the gesture recorded for a hand is Fist iff folded_count >= 3, Open
\* iff folded_count = 0, Neutral iff folded_count is 1 or 2, where
\* folded_count is the number of fingers (8,5), (12,9), (16,13), (20,17)
\* whose tip is strictly nearer to the wrist than its MCP (equidistant does
\* not count); moving the thumb tip does not change the result.
C9_GestureClassification ==
    \A k \in 1..Len(hand_data_list) :
        LET lm == frame[k].landmark
            g == hand_data_list[k].gesture
            notFolded == {f \in {<<8, 5>>, <<12, 9>>, <<16, 13>>, <<20, 17>>} :
                            DistSq(lm[0], lm[f[1]]) >= DistSq(lm[0], lm[f[2]])}
            folded_count == 4 - Cardinality(notFolded)
        IN  /\ (g = "Fist") = (folded_count >= 3)
            /\ (g = "Open") = (folded_count = 0)
            /\ (g = "Neutral") = (folded_count \in {1, 2})
            /\ \A q \in {lm[0], lm[12], lm[17], Pt(0, 0, 0)} :
                   get_gesture([lm EXCEPT ![4] = q]) = g

\* C9 witness: a hand with two fingers folded and a third exactly
\* equidistant was classified Neutral.
C9_Witness ==
    /\ Len(hand_data_list) = 1
    /\ LET lm == frame[1].landmark
       IN  /\ DistSq(lm[0], lm[8]) = DistSq(lm[0], lm[5])
           /\ DistSq(lm[0], lm[12]) < DistSq(lm[0], lm[9])
           /\ DistSq(lm[0], lm[16]) < DistSq(lm[0], lm[13])
           /\ DistSq(lm[0], lm[20]) > DistSq(lm[0], lm[17])
    /\ hand_data_list[1].gesture = "Neutral"

\* Squared distance thumb tip (4) to middle tip (12) of the hand whose loop
\* body ran last.
LastPinchDistSq ==
    LET th == LastHand.landmark[4]
        mi == LastHand.landmark[12]
    IN  (th.x - mi.x) * (th.x - mi.x) + (th.y - mi.y) * (th.y - mi.y)
            + (th.z - mi.z) * (th.z - mi.z)

\* C10 as stated: the pinch flag stored for the hand just processed is true
\* iff d^2 < 0.004^2 = 0.000016 = 1 / 62500.
C10_PinchBoundSquared ==
    (pc = "hands" /\ i > 1) =>
        (pinch_state[LastHand.label] = (LastPinchDistSq * 62500 < Unit * Unit))

\* C10 amended: the pinch flag stored for the hand just processed is true
\* iff d^2 < 0.004, the value of threshold_sq itself.
C10_PinchBound ==
    (pc = "hands" /\ i > 1) =>
        (pinch_state[LastHand.label] = Under0004(LastPinchDistSq))

\* C10 witness: a hand with d^2 = 4194 / 2^20 = 0.0039997, far above
\* 0.000016, was stored as pinching.
C10_Witness ==
    /\ pc = "hands" /\ i > 1
    /\ LastPinchDistSq = 4194
    /\ ~ (LastPinchDistSq * 62500 < Unit * Unit)
    /\ pinch_state[LastHand.label] = TRUE

\* C11: when a frame of one hand repeats exactly the single hand of the
\* previous frame, no snap is printed or flagged for it and the stored
\* is_pinching of its label is what it was after the first of the two.
C11_RepeatIdempotent ==
    (success = "True" /\ Len(frame) = 1 /\ prev_single = frame /\ i = 2) =>
        /\ stdout = <<>>
        /\ snap_detected = FALSE
        /\ pinch_state[frame[1].label] = pre_pinch_state[frame[1].label]

\* C11 witness: the first of the two frames released a pinch fast enough to
\* fire, the second repeated it and stayed silent.
C11_Witness ==
    /\ pc = "hands" /\ i = 2 /\ Len(frame) = 1 /\ prev_single = frame
    /\ frame[1].label \in snapped
    /\ gap[frame[1].label] = 0
    /\ pinch_state[frame[1].label] = FALSE
    /\ stdout = <<>>

\* Pinch flag of the first hand's label before and after that hand was
\* processed, whether it printed a snap, and how far its middle tip moved.
FirstWas == pre_pinch_state[frame[1].label]
FirstNow == pinch_state[frame[1].label]
FirstFired == stdout # <<>>
FirstMove ==
    LET a == prev_middle_y[frame[1].label]
        b == pre_prev_middle_y[frame[1].label]
    IN  IF a >= b THEN a - b ELSE b - a

\* C12 as stated: the edge-triggered policy is in force.  Of the four
\* transitions that [false, true, true, false] from the initial state and
\* [true, true, true] from a pinching label run through, only
\* not-pinching -> pinching fires; the release and both self-transitions
\* are silent.
C12_EdgeTriggered ==
    (pc = "hands" /\ i = 2) => (FirstFired = (~ FirstWas /\ FirstNow))

\* C12 amended: only the velocity-gated policy is in force.
\* not-pinching -> pinching (the first true) never fires, the two
\* self-transitions never fire, and the release pinching -> not-pinching
\* fires exactly when the middle tip moved more than 0.04.
C12_ReleaseTriggered ==
    (pc = "hands" /\ i = 2) =>
        /\ (~ FirstWas /\ FirstNow) => ~ FirstFired
        /\ (FirstWas = FirstNow) => ~ FirstFired
        /\ (FirstWas /\ ~ FirstNow) => (FirstFired = Over004(FirstMove))

\* C12 witness: a label seen apart in an earlier frame is now seen
\* pinching for the first time, after a move of more than twice 0.04, and
\* no snap was printed.
C12_Witness ==
    /\ pc = "hands" /\ i = 2 /\ Len(frame) = 1
    /\ frame[1].label \in seen
    /\ ~ FirstWas /\ FirstNow
    /\ Over004(FirstMove \div 2)
    /\ ~ FirstFired

\* C13: nothing is sent while the hands of a frame are still being
\* processed; once the iteration of a frame with hands is over, exactly one
\* payload was sent for it, with one entry per hand in the order received,
\* each with the hand's label, its 21 landmarks with ids 0..20 in index
\* order, and the gesture the classifier gives for these landmarks.
C13_PayloadPerFrame ==
    /\ (pc \in {"hands", "emit"}) => sent = <<>>
    /\ (IterationDone /\ frame # <<>>) =>
          /\ Len(sent) = 1
          /\ Len(sent[1].hands) = Len(frame)
          /\ \A k \in 1..Len(frame) :
                LET e == sent[1].hands[k]
                    lm == frame[k].landmark
                IN  /\ e.label = frame[k].label
                    /\ Len(e.landmarks) = 21
                    /\ \A j \in 0..20 :
                          e.landmarks[j + 1] =
                              [id |-> j, x |-> lm[j].x, y |-> lm[j].y, z |-> lm[j].z]
                    /\ e.gesture = get_gesture(lm)

\* C13 witness: a frame <<Right, Left>> with an open and a clenched hand
\* was sent as one payload with the entries in that order.
C13_Witness ==
    /\ IterationDone /\ Len(frame) = 2
    /\ Len(sent) = 1
    /\ sent[1].hands[1].label = "Right" /\ sent[1].hands[1].gesture = "Open"
    /\ sent[1].hands[2].label = "Left" /\ sent[1].hands[2].gesture = "Fist"

\* The single hand of the frame is outside the contract, and the loop body
\* has dealt with it (ran to its end or raised).
FirstMalformed ==
    \/ frame[1].label \notin {"Left", "Right"}
    \/ Cardinality(DOMAIN frame[1].landmark) # 21
FirstHandled == success = "True" /\ Len(frame) = 1 /\ (i = 2 \/ exc # "none")

\* C14 as stated: a hand with an unknown label or without exactly 21
\* landmarks is rejected with InvalidObservation and both dictionaries are
\* left as they were, keys included.
C14_MalformedRejected ==
    (FirstHandled /\ FirstMalformed) =>
        /\ exc = "InvalidObservation"
        /\ pinch_state = pre_pinch_state
        /\ prev_middle_y = pre_prev_middle_y

\* C14 amended: no observation is rejected as invalid.  A hand with fewer
\* than 21 landmarks raises IndexError before anything is appended or
\* written.  A hand with 21 or more landmarks is processed whatever its
\* label, like a Left or Right hand: no error, one entry in hand_data_list
\* with all its landmarks, the dictionaries hold the hand's pinch flag and
\* middle-tip y under its label with every other entry as before, and a
\* snap is printed iff the label's stored flag (false when the label has no
\* entry) is true, the hand is not pinching and its middle tip is more than
\* 0.04 away from the stored y.  So the first observation of an unknown
\* label adds its key and prints nothing, and a later one reads and
\* rewrites that entry, adds no key, and can print a snap.
C14_MalformedHandled ==
    FirstHandled =>
        LET h == frame[1]
            L == h.label
            n == Cardinality(DOMAIN h.landmark)
            known == L \in DOMAIN pre_pinch_state
            y == h.landmark[12].y
            dy == IF ~ known THEN 0
                  ELSE IF y >= pre_prev_middle_y[L] THEN y - pre_prev_middle_y[L]
                  ELSE pre_prev_middle_y[L] - y
        IN  /\ n < 21 =>
                  /\ exc = "IndexError"
                  /\ pinch_state = pre_pinch_state
                  /\ prev_middle_y = pre_prev_middle_y
                  /\ hand_data_list = <<>>
                  /\ stdout = <<>>
            /\ n >= 21 =>
                  /\ exc = "none"
                  /\ Len(hand_data_list) = 1
                  /\ Len(hand_data_list[1].landmarks) = n
                  /\ DOMAIN pinch_state = (DOMAIN pre_pinch_state) \cup {L}
                  /\ DOMAIN prev_middle_y = (DOMAIN pre_prev_middle_y) \cup {L}
                  /\ pinch_state[L] = is_pinching(h.landmark)
                  /\ prev_middle_y[L] = y
                  /\ \A x \in DOMAIN pre_pinch_state :
                        x # L => /\ pinch_state[x] = pre_pinch_state[x]
                                 /\ prev_middle_y[x] = pre_prev_middle_y[x]
                  /\ (stdout # <<>>) = /\ known
                                       /\ pre_pinch_state[L]
                                       /\ ~ is_pinching(h.landmark)
                                       /\ Over004(dy)
                  /\ stdout # <<>> => stdout = <<L>>

\* C14 witness: a hand labelled Unknown with 22 landmarks, whose label got
\* its entry from an earlier frame in which it was pinching, was processed
\* without error, printed a snap and added no key.
C14_Witness ==
    /\ FirstHandled /\ exc = "none"
    /\ frame[1].label = "Unknown"
    /\ Cardinality(DOMAIN frame[1].landmark) = 22
    /\ "Unknown" \in DOMAIN pre_pinch_state
    /\ pre_pinch_state["Unknown"] = TRUE
    /\ DOMAIN pinch_state = DOMAIN pre_pinch_state
    /\ pinch_state["Unknown"] = FALSE
    /\ stdout = <<"Unknown">>

\* C15: a 21-landmark hand whose label has no entry in the dictionaries is
\* processed without error, and both the snap decision and the state stored
\* for the label afterwards are those of the same hand processed with the
\* label's entry at the start values (is_pinching false, y 0.0).
C15_LazyInit ==
    (FirstHandled /\ frame[1].label \notin DOMAIN pre_pinch_state
                  /\ DOMAIN frame[1].landmark = 0..20) =>
        LET L == frame[1].label
            ps0 == [x \in (DOMAIN pre_pinch_state) \cup {L} |->
                      IF x = L THEN FALSE ELSE pre_pinch_state[x]]
            prev0 == [x \in (DOMAIN pre_prev_middle_y) \cup {L} |->
                        IF x = L THEN 0 ELSE pre_prev_middle_y[x]]
            b == LoopBody(ps0, prev0, frame[1])
        IN  /\ exc = "none"
            /\ (stdout # <<>>) = b.fires
            /\ L \in DOMAIN pinch_state /\ pinch_state[L] = b.pinch_state[L]
            /\ L \in DOMAIN prev_middle_y /\ prev_middle_y[L] = b.prev_middle_y[L]

\* C15 witness: an Unknown hand, not pinching, with its middle tip more
\* than 0.04 away from 0.0, was processed silently and is now stored.
C15_Witness ==
    /\ FirstHandled /\ exc = "none"
    /\ frame[1].label = "Unknown"
    /\ DOMAIN frame[1].landmark = 0..20
    /\ "Unknown" \notin DOMAIN pre_pinch_state
    /\ ~ is_pinching(frame[1].landmark)
    /\ Over004(frame[1].landmark[12].y)
    /\ stdout = <<>>
    /\ pinch_state["Unknown"] = FALSE
    /\ prev_middle_y["Unknown"] = frame[1].landmark[12].y

\* The hand processed last with its thumb tip moved to offset t from the
\* middle tip, and the squared thumb-middle distance that gives.
ThumbMoved(t) ==
    LET mi == LastHand.landmark[12]
    IN  [LastHand.landmark EXCEPT ![4] = Pt(mi.x + t[1], mi.y + t[2], mi.z + t[3])]
ThumbDistSq(t) == t[1] * t[1] + t[2] * t[2] + t[3] * t[3]

\* C16: the pinch flag stored for the hand just processed is true when its
\* squared thumb-middle distance is below the bound the detector compares
\* with (threshold_sq), false when it is above, and a value equal to the
\* bound is not below it; and the flag is monotonic: with the thumb moved no
\* farther a pinching hand stays pinching, with the thumb moved no nearer a
\* hand that is apart stays apart, so crossing the bound inwards flips
\* false -> true and outwards true -> false.
C16_PinchStrictMonotonic ==
    (pc = "hands" /\ i > 1) =>
        LET d == LastPinchDistSq
            flag == pinch_state[LastHand.label]
        IN  /\ ~ Less(threshold_sq.num, threshold_sq.den, threshold_sq)
            /\ d * threshold_sq.den = threshold_sq.num * Unit * Unit => flag = FALSE
            /\ d * threshold_sq.den < threshold_sq.num * Unit * Unit => flag = TRUE
            /\ d * threshold_sq.den > threshold_sq.num * Unit * Unit => flag = FALSE
            /\ \A t \in AllThumbs :
                  /\ (ThumbDistSq(t) <= d /\ flag) => is_pinching(ThumbMoved(t))
                  /\ (ThumbDistSq(t) >= d /\ ~ flag) => ~ is_pinching(ThumbMoved(t))
                  /\ (Under0004(ThumbDistSq(t)) /\ ~ Under0004(d)) =>
                        (~ flag /\ is_pinching(ThumbMoved(t)))

\* C16 witness: a hand with the smallest squared distance above the bound
\* (4195) was stored as not pinching, and with its thumb one step nearer
\* (4194) it is pinching.
C16_Witness ==
    /\ pc = "hands" /\ i > 1
    /\ ~ Under0004(LastPinchDistSq) /\ Under0004(LastPinchDistSq - 1)
    /\ pinch_state[LastHand.label] = FALSE
    /\ \E t \in AllThumbs : /\ ThumbDistSq(t) = LastPinchDistSq - 1
                             /\ is_pinching(ThumbMoved(t))

\* C17: a snap is printed for a label only if that label was observed
\* pinching since its previous snap (or never fired before): no label fires
\* on two observations in a row, and one release gives at most one snap.
C17_OneSnapPerRelease ==
    [][(pc = "hands" /\ i <= Len(frame) /\ i' = i + 1 /\ stdout' # stdout) =>
         frame[i].label \notin snapped]_vars

\* C17 witness: a label that fired and was not seen pinching since is
\* observed again, still apart and more than 0.04 away from its stored y,
\* and prints nothing.
C17_Witness ==
    /\ pc = "hands" /\ i = 2 /\ Len(frame) = 1
    /\ frame[1].label \in snapped
    /\ ~ FirstWas /\ ~ FirstNow
    /\ Over004(FirstMove)
    /\ stdout = <<>>

\* C18: whenever the loop body runs for a hand with label L, a snap is
\* printed iff the latest earlier observation of L was pinching, the hand
\* is not pinching, and its middle-tip y is more than 0.04 away from
\* the y of that observation, however many loop iterations (frames without
\* L, frames without hands, failed reads) lie in between.
C18_LastObservationDecides ==
    [][(pc = "hands" /\ i <= Len(frame) /\ i' = i + 1) =>
         LET L == frame[i].label
             o == last_obs[L]
             y == frame[i].landmark[12].y
             far == Over004(y - o.y) \/ Over004(o.y - y)
         IN  (stdout' # stdout) = (o.pinch /\ ~ is_pinching(frame[i].landmark) /\ far)]_vars

\* C18 witness: a label last observed pinching was absent for MaxGap loop
\* iterations and fired on the frame in which it came back apart.
C18_Witness ==
    /\ pc = "hands" /\ i = 2 /\ Len(frame) = 1
    /\ gap[frame[1].label] = MaxGap
    /\ FirstWas /\ ~ FirstNow
    /\ Over004(FirstMove)
    /\ stdout = <<frame[1].label>>

\* C19: the gesture put into the payload is get_gesture of the hand's own
\* landmarks, whatever the two dictionaries hold and whatever ran before;
\* and the gesture has no say in the rest of the loop body: with the index,
\* ring and pinky tips bent any other way (which moves the gesture between
\* Fist, Open and Neutral) the hand fires or stays silent exactly as it did
\* and leaves the same pinch_state and prev_middle_y.
C19_GestureIsolated ==
    [][(pc = "hands" /\ i <= Len(frame) /\ i' = i + 1) =>
         LET h == frame[i]
             g == get_gesture(h.landmark)
         IN  /\ hand_data_list'[Len(hand_data_list')].gesture = g
             /\ \A ps \in [Labels -> BOOLEAN], y \in {0, 100} :
                    LoopBody(ps, [l \in Labels |-> y], h).hand_data.gesture = g
             /\ \A b8 \in {"ext", "fold"}, b16 \in {"ext", "fold"}, b20 \in {"ext", "fold"} :
                    LET p == PoseOf(b8, b16, b20)
                        r == LoopBody(pinch_state, prev_middle_y, Repose(h, p))
                    IN  /\ r.fires = (stdout' # stdout)
                        /\ r.pinch_state = pinch_state'
                        /\ r.prev_middle_y = prev_middle_y']_vars

\* A hand reported Neutral has just fired, and the same hand with all three
\* fingers folded is a Fist, with all three stretched it is Open.
C19_Witness ==
    /\ pc = "hands" /\ i = 2 /\ Len(frame) = 1
    /\ FirstFired
    /\ hand_data_list[1].gesture = "Neutral"
    /\ get_gesture(Repose(frame[1], PoseOf("fold", "fold", "fold")).landmark) = "Fist"
    /\ get_gesture(Repose(frame[1], PoseOf("ext", "ext", "ext")).landmark) = "Open"
====
